---- MODULE Spec2Model ----
(***************************************************************************)
(* Model of python/how-tos/How_to_find_and_access_EMIT_data.ipynb:         *)
(* the cells that turn the granule search results into nested URL lists,   *)
(* filter the asset links, stream the first asset and download the         *)
(* filtered assets into ../../data/.                                       *)
(*                                                                         *)
(* Strings are sequences of one-character strings, so that str.split,      *)
(* the [-1] index and the `in` substring test are computed, not assumed.   *)
(* File contents are sequences of bytes (small naturals).                  *)
(***************************************************************************)
EXTENDS Integers, Sequences, FiniteSets, TLC

\* ------------------------------------------------------------------ bounds
\* SpecFilter: number of granules, number of URLs over all granules, and
\* length of desired_assets
MaxGranules == 2
MaxUrls == 3
MaxDesired == 2
\* Spec: number of granules and of URLs of the search results, number of
\* times the download cell and the stream cell are run
WfGranules == 2
WfUrls == 2
MaxRuns == 2
MaxStreams == 1

\* chunk_size=64*1024*1024 of the download cell, scaled to the size of the
\* modelled remote resources (0..4 bytes) so that a resource spans one,
\* several, or no chunk.
chunk_size == 2

\* ------------------------------------------------------------ input pools
\* Asset-name fragments
S_RFL == <<"R", "F", "L", "_">>
S_MASK == <<"M">>
S_EMPTY == <<>>

\* Asset URLs: g/RFL_ and h/RFL_ are different URLs with the same file name,
\* g/RFLU is the uncertainty product (contains RFL but not RFL_), RFL_/M has
\* its only match in an earlier path segment, RFL_/ has an empty file name.
U_RFL == <<"g", "/", "R", "F", "L", "_">>
U_RFL2 == <<"h", "/", "R", "F", "L", "_">>
U_UNC == <<"g", "/", "R", "F", "L", "U">>
U_MASK == <<"g", "/", "M">>
U_DIR == <<"R", "F", "L", "_", "/", "M">>
U_SLASH == <<"R", "F", "L", "_", "/">>

\* URLs the asset filter is tried on
URLS == {U_RFL, U_RFL2, U_UNC, U_DIR, U_SLASH}

\* URLs the search returns in the download workflow
WfURLS == {U_RFL, U_RFL2, U_MASK, U_SLASH}

DesiredPool == {S_RFL, S_MASK, S_EMPTY}

SeqUpTo(S, n) == UNION {[1..k -> S] : k \in 0..n}

\* ways to cut a list of n elements into g consecutive, possibly empty, parts
Cuts(g, n) ==
    {c \in [0..g -> 0..n] :
        c[0] = 0 /\ c[g] = n /\ \A k \in 1..g : c[k - 1] <= c[k]}

\* the nested lists of at most maxG lists holding at most maxU elements of S
\* in all
Nested(S, maxG, maxU) ==
    {<<>>} \cup
    UNION {UNION {{[k \in 1..g |-> SubSeq(f, c[k - 1] + 1, c[k])] :
                      c \in Cuts(g, Len(f))} :
                  f \in SeqUpTo(S, maxU)} :
           g \in 1..maxG}

\* desired_assets lists a user of the download workflow may set; the first
\* is the one written in the notebook, the second selects every asset.
WfDesired == {<<S_RFL>>, <<S_EMPTY>>}

None == "None"

\* ------------------------------------------------------------------ state
VARIABLES
    results,              \* granules returned by earthaccess.search_data
    emit_results_urls,    \* list of URL lists, one per granule
    desired_assets,       \* list of substrings
    filtered_asset_links, \* flattened, filtered list of URLs
    pc,                   \* position in the notebook
    files,                \* regular files of the file system: path -> bytes
    files0,               \* files when the current download run started
    i,                    \* index of the download loop (1-based)
    src,                  \* open response of fs.get, or None
    chunks,               \* chunks src.iter_content has still to yield
    dst,                  \* path of the file open for writing, or None
    requests,             \* URLs requested by the current download run
    writes,               \* <<path, chunk>> written by the current run
    run,                  \* number of download runs started
    status,               \* outcome of the current/last download run
    prev_status,          \* outcome of the run before it
    dl_error,             \* exception that ended the current download run
    stream_fp,            \* URL the stream handle fp is bound to, or None
    stream_error,         \* exception raised by the stream cell, or None
    streams,              \* number of times the stream cell was run
    interrupted           \* path -> [url, content, run] of interrupted writes

vars == <<results, emit_results_urls, desired_assets, filtered_asset_links,
          pc, files, files0, i, src, chunks, dst, requests, writes, run,
          status, prev_status, dl_error, stream_fp, stream_error, streams,
          interrupted>>

filterVars == <<emit_results_urls, filtered_asset_links>>
downloadVars == <<files, files0, i, src, chunks, dst, requests, writes, run,
                  status, prev_status, dl_error, interrupted>>
streamVars == <<stream_fp, stream_error, streams>>

\* ------------------------------------------------------- string functions
\* Index of the first occurrence of the character sep in s, 0 if none.
RECURSIVE find(_, _, _)
find(s, sep, k) ==
    IF k > Len(s) THEN 0
    ELSE IF s[k] = sep THEN k
    ELSE find(s, sep, k + 1)

\* str.split(sep) for a one-character separator
RECURSIVE split(_, _)
split(s, sep) ==
    LET k == find(s, sep, 1) IN
    IF k = 0 THEN <<s>>
    ELSE <<SubSeq(s, 1, k - 1)>> \o split(SubSeq(s, k + 1, Len(s)), sep)

\* seq[-1]
last(seq) == seq[Len(seq)]

\* variant: the test is made on the whole URL
asset_name_whole(url) == url

\* variant: the first path segment is taken, split('/')[0]
asset_name_head(url) == split(url, "/")[1]

\* url.split('/')[-1]
asset_name_of(url) == last(split(url, "/"))

\* Python's `sub in s` on strings: scan the start positions left to right
RECURSIVE str_in(_, _)
str_in(sub, s) ==
    IF Len(sub) > Len(s) THEN FALSE
    ELSE IF SubSeq(s, 1, Len(sub)) = sub THEN TRUE
    ELSE str_in(sub, Tail(s))

\* variant: all(...) in place of any(...)
RECURSIVE all_asset_in(_, _)
all_asset_in(desired, asset_name) ==
    IF desired = <<>> THEN TRUE
    ELSE IF ~str_in(Head(desired), asset_name) THEN FALSE
    ELSE all_asset_in(Tail(desired), asset_name)

\* any(asset in asset_name for asset in desired)
RECURSIVE any_asset_in(_, _)
any_asset_in(desired, asset_name) ==
    IF desired = <<>> THEN FALSE
    ELSE IF str_in(Head(desired), asset_name) THEN TRUE
    ELSE any_asset_in(Tail(desired), asset_name)

\* for url in granule: ... filtered_asset_links.append(url)
RECURSIVE filter_granule(_, _, _)
filter_granule(granule, desired, acc) ==
    IF granule = <<>> THEN acc
    ELSE LET url == Head(granule)
             asset_name == asset_name_of(url)
         IN filter_granule(Tail(granule), desired,
                IF any_asset_in(desired, asset_name)
                THEN Append(acc, url) ELSE acc)

\* for n, granule in enumerate(emit_results_urls): ...
RECURSIVE filter_results(_, _, _)
filter_results(urls, desired, acc) ==
    IF urls = <<>> THEN acc
    ELSE filter_results(Tail(urls), desired,
             filter_granule(Head(urls), desired, acc))

\* variant: the last element is taken
first_from_end(seq) == seq[Len(seq)]

\* seq[0]
first(seq) == seq[1]

\* ------------------------------------------------- file system and remote
\* '../../data/'
DataDir == <<".", ".", "/", ".", ".", "/", "d", "a", "t", "a", "/">>

\* f'../../data/{granule_asset_id}'
fp_of(granule_asset_id) == DataDir \o granule_asset_id

EmptyFS == [p \in {} |-> <<>>]

\* content of a file left in ../../data/ before the notebook is run
Stale == <<0>>

\* variant: the existence test is dropped
isfile_never(fp) == FALSE

\* variant: an empty file counts as missing
isfile_nonempty(fp) == fp \in DOMAIN files /\ files[fp] # <<>>

\* os.path.isfile(fp): fp is a regular file
isfile(fp) == fp \in DOMAIN files

\* the data directory is the only directory a destination path can name
isdir(fp) == fp = DataDir

\* open(fp, 'wb'): create the file, or truncate it
open_wb(fp) == [p \in DOMAIN files \cup {fp} |->
                   IF p = fp THEN <<>> ELSE files[p]]

\* variant: each chunk replaces what was written before
write_replace(fp, chunk) == [files EXCEPT ![fp] = chunk]

\* dst.write(chunk)
write(fp, chunk) == [files EXCEPT ![fp] = @ \o chunk]

\* body the server sends for a URL
Remote(url) ==
    CASE url = U_RFL -> <<1, 2, 3, 4>>
      [] url = U_RFL2 -> <<5, 6, 7>>
      [] url = U_UNC -> <<8, 9>>
      [] url = U_MASK -> <<>>
      [] url = U_DIR -> <<10>>
      [] url = U_SLASH -> <<11>>

\* src.iter_content(chunk_size=n): the body in pieces of n bytes, the last
\* one possibly shorter
RECURSIVE iter_content(_, _)
iter_content(body, n) ==
    IF body = <<>> THEN <<>>
    ELSE IF Len(body) <= n THEN <<body>>
    ELSE <<SubSeq(body, 1, n)>> \o iter_content(SubSeq(body, n + 1, Len(body)), n)

\* granule.data_links()
data_links(granule) == granule.links

\* ------------------------------------------------------------------- Init
Granule(links) == [links |-> links]

InitRest ==
    /\ emit_results_urls = <<>>
    /\ filtered_asset_links = <<>>
    /\ pc = "results"
    /\ files0 = files
    /\ i = 0
    /\ src = None
    /\ chunks = <<>>
    /\ dst = None
    /\ requests = <<>>
    /\ writes = <<>>
    /\ run = 0
    /\ status = None
    /\ prev_status = None
    /\ dl_error = None
    /\ stream_fp = None
    /\ stream_error = None
    /\ streams = 0
    /\ interrupted = EmptyFS

\* Inputs of the asset filter: any nested list, any list of substrings
InitFilter ==
    /\ results \in {[k \in 1..Len(n) |-> Granule(n[k])] :
                       n \in Nested(URLS, MaxGranules, MaxUrls)}
    /\ desired_assets \in SeqUpTo(DesiredPool, MaxDesired)
    /\ files = EmptyFS
    /\ InitRest

\* Inputs of the workflow: the search results, the desired assets, and
\* whether ../../data/ already holds a file named RFL_
Init ==
    /\ results \in {[k \in 1..Len(n) |-> Granule(n[k])] :
                       n \in Nested(WfURLS, WfGranules, WfUrls)}
    /\ desired_assets \in WfDesired
    /\ files \in {EmptyFS, [p \in {fp_of(S_RFL)} |-> Stale]}
    /\ InitRest

\* ---------------------------------------------------------------- actions
\* emit_results_urls = [granule.data_links() for granule in results]
BuildUrls ==
    /\ pc = "results"
    /\ emit_results_urls' = [n \in 1..Len(results) |-> data_links(results[n])]
    /\ pc' = "urls"
    /\ UNCHANGED <<results, desired_assets, filtered_asset_links,
                   downloadVars, streamVars>>

\* the asset filter cell
FilterCell ==
    /\ pc = "urls"
    /\ filtered_asset_links' =
           filter_results(emit_results_urls, desired_assets, <<>>)
    /\ pc' = "idle"
    /\ UNCHANGED <<results, desired_assets, emit_results_urls,
                   downloadVars, streamVars>>

\* variant: an empty list is passed over silently
StreamCellGuarded ==
    /\ pc = "idle"
    /\ streams < MaxStreams
    /\ streams' = streams + 1
    /\ IF filtered_asset_links = <<>>
       THEN UNCHANGED <<stream_error, stream_fp>>
       ELSE /\ stream_fp' = first(filtered_asset_links)
            /\ stream_error' = None
    /\ UNCHANGED <<results, desired_assets, filterVars, pc, downloadVars>>

\* ---- stream cell
\* fs = earthaccess.get_fsspec_https_session(); url = filtered_asset_links[0]
\* fp = fs.open(url); ds = emit_xarray(fp)
StreamCell ==
    /\ pc = "idle"
    /\ streams < MaxStreams
    /\ streams' = streams + 1
    /\ IF filtered_asset_links = <<>>
       THEN /\ stream_error' = "IndexError"
            /\ UNCHANGED stream_fp
       ELSE \/ /\ stream_fp' = first(filtered_asset_links)
               /\ stream_error' = None
            \/ /\ stream_error' = "ClientError"
               /\ UNCHANGED stream_fp
    /\ UNCHANGED <<results, desired_assets, filterVars, pc, downloadVars>>

\* ---- download cell
\* variant: the exception is caught and the loop goes on with the same url
RaiseAndRetry(exc) ==
    /\ dl_error' = exc
    /\ status' = "failed"
    /\ pc' = "loop"
    /\ src' = None
    /\ dst' = None
    /\ chunks' = <<>>

\* an exception leaves the with-blocks (closing src and dst) and the cell
Raise(exc) ==
    /\ dl_error' = exc
    /\ status' = "failed"
    /\ pc' = "idle"
    /\ src' = None
    /\ dst' = None
    /\ chunks' = <<>>

\* the URL and the destination path of the current iteration
url_at(k) == filtered_asset_links[k]
fp_at(k) == fp_of(asset_name_of(url_at(k)))

\* fs = earthaccess.get_requests_https_session(); the for loop starts
DownloadStart ==
    /\ pc = "idle"
    /\ run < MaxRuns
    /\ run' = run + 1
    /\ i' = 1
    /\ requests' = <<>>
    /\ writes' = <<>>
    /\ files0' = files
    /\ prev_status' = status
    /\ status' = "running"
    /\ dl_error' = None
    /\ pc' = "loop"
    /\ UNCHANGED <<results, desired_assets, filterVars, streamVars,
                   files, src, chunks, dst, interrupted>>

\* if not os.path.isfile(fp): is false, next url
DownloadSkip ==
    /\ pc = "loop"
    /\ i <= Len(filtered_asset_links)
    /\ isfile(fp_at(i))
    /\ i' = i + 1
    /\ UNCHANGED <<results, desired_assets, filterVars, streamVars, pc,
                   files, files0, src, chunks, dst, requests, writes, run,
                   status, prev_status, dl_error, interrupted>>

\* with fs.get(url, stream=True) as src: the request is sent; it returns a
\* response or raises
DownloadGet ==
    /\ pc = "loop"
    /\ i <= Len(filtered_asset_links)
    /\ ~isfile(fp_at(i))
    /\ requests' = Append(requests, url_at(i))
    /\ \/ /\ src' = url_at(i)
          /\ pc' = "got"
          /\ UNCHANGED <<chunks, dst, status, dl_error>>
       \/ Raise("RequestException")
    /\ UNCHANGED <<results, desired_assets, filterVars, streamVars,
                   files, files0, i, writes, run, prev_status, interrupted>>

\* with open(fp, 'wb') as dst: and the start of the chunk loop
DownloadOpen ==
    /\ pc = "got"
    /\ IF isdir(fp_at(i))
       THEN /\ Raise("IsADirectoryError")
            /\ UNCHANGED files
       ELSE /\ files' = open_wb(fp_at(i))
            /\ dst' = fp_at(i)
            /\ chunks' = iter_content(Remote(src), chunk_size)
            /\ pc' = "writing"
            /\ UNCHANGED <<src, status, dl_error>>
    /\ UNCHANGED <<results, desired_assets, filterVars, streamVars,
                   files0, i, requests, writes, run, prev_status,
                   interrupted>>

\* for chunk in src.iter_content(...): dst.write(chunk); receiving or
\* writing the chunk may raise, which leaves the file as written so far
DownloadChunk ==
    /\ pc = "writing"
    /\ chunks # <<>>
    /\ \/ /\ files' = write(dst, Head(chunks))
          /\ writes' = Append(writes, <<dst, Head(chunks)>>)
          /\ chunks' = Tail(chunks)
          /\ UNCHANGED <<pc, src, dst, status, dl_error, interrupted>>
       \/ /\ \E exc \in {"ChunkedEncodingError", "OSError"} : Raise(exc)
          /\ interrupted' =
                 [p \in DOMAIN interrupted \cup {dst} |->
                     IF p = dst
                     THEN [url |-> src, content |-> files[dst], run |-> run]
                     ELSE interrupted[p]]
          /\ UNCHANGED <<files, writes>>
    /\ UNCHANGED <<results, desired_assets, filterVars, streamVars,
                   files0, i, requests, run, prev_status>>

\* the chunk loop is exhausted: both with-blocks close, next url
DownloadClose ==
    /\ pc = "writing"
    /\ chunks = <<>>
    /\ src' = None
    /\ dst' = None
    /\ i' = i + 1
    /\ pc' = "loop"
    /\ UNCHANGED <<results, desired_assets, filterVars, streamVars,
                   files, files0, chunks, requests, writes, run, status,
                   prev_status, dl_error, interrupted>>

\* the for loop is exhausted: the cell ends
DownloadDone ==
    /\ pc = "loop"
    /\ i > Len(filtered_asset_links)
    /\ status' = "completed"
    /\ pc' = "idle"
    /\ UNCHANGED <<results, desired_assets, filterVars, streamVars,
                   files, files0, i, src, chunks, dst, requests, writes,
                   run, prev_status, dl_error, interrupted>>

NextFilter == BuildUrls \/ FilterCell

Next ==
    \/ BuildUrls
    \/ FilterCell
    \/ StreamCell
    \/ DownloadStart
    \/ DownloadSkip
    \/ DownloadGet
    \/ DownloadOpen
    \/ DownloadChunk
    \/ DownloadClose
    \/ DownloadDone

Spec == Init /\ [][Next]_vars

SpecFilter == InitFilter /\ [][NextFilter]_vars

\* ------------------------------------------------------------- properties
Range(seq) == {seq[k] : k \in 1..Len(seq)}

\* the URLs in the order in which the granules and their URLs are walked
RECURSIVE Flat(_)
Flat(urls) == IF urls = <<>> THEN <<>> ELSE Head(urls) \o Flat(Tail(urls))

\* the part of a URL after its last '/', the whole URL if it has none
LastSlash(url) ==
    LET idx == {k \in 1..Len(url) : url[k] = "/"} IN
    IF idx = {} THEN 0 ELSE CHOOSE k \in idx : \A j \in idx : j <= k
FileName(url) == SubSeq(url, LastSlash(url) + 1, Len(url))

\* sub occurs in s at some position
Occurs(sub, s) ==
    \E k \in 0..(Len(s) - Len(sub)) : \A j \in 1..Len(sub) : s[k + j] = sub[j]

Wanted(url) ==
    \E d \in 1..Len(desired_assets) : Occurs(desired_assets[d], FileName(url))

\* destination path of the k-th URL of filtered_asset_links
Dest(k) == DataDir \o FileName(filtered_asset_links[k])

\* the k-th URL is the first one of the list with its destination path
FirstWithDest(k) == \A j \in 1..(k - 1) : Dest(j) # Dest(k)

\* index of the first URL of the list whose destination is Dest(k)
FirstIndex(k) == CHOOSE j \in 1..k : Dest(j) = Dest(k) /\ FirstWithDest(j)

\* the chunks written to path p by the current run, in the order written
ChunksTo(p) ==
    LET IsP(w) == w[1] = p
        ws == SelectSeq(writes, IsP)
    IN [k \in 1..Len(ws) |-> ws[k][2]]

RECURSIVE Concat(_)
Concat(cs) == IF cs = <<>> THEN <<>> ELSE Head(cs) \o Concat(Tail(cs))

\* C1: once the filter cell has run, filtered_asset_links is exactly the
\* walk of the nested lists restricted to the URLs whose last path segment
\* contains a desired substring, in the order of the walk; for the desired
\* substring RFL_ a URL matching only in an earlier segment and the RFLU...
\* product are not in it.
C1_FilterExact ==
    pc = "idle" =>
        /\ filtered_asset_links = SelectSeq(Flat(emit_results_urls), Wanted)
        /\ desired_assets = <<S_RFL>> =>
               /\ U_DIR \notin Range(filtered_asset_links)
               /\ U_UNC \notin Range(filtered_asset_links)

C1_Witness ==
    /\ pc = "idle"
    /\ desired_assets = <<S_RFL>>
    /\ Len(emit_results_urls) = 2
    /\ Len(filtered_asset_links) = 2
    /\ filtered_asset_links[1] # filtered_asset_links[2]
    /\ \E u \in {U_DIR, U_UNC} : Flat(emit_results_urls)[2] = u

\* C2: with an empty list of desired substrings the filter cell leaves
\* filtered_asset_links empty, whatever the nested lists hold.
C2_EmptyDesired ==
    (pc = "idle" /\ desired_assets = <<>>) => filtered_asset_links = <<>>

C2_Witness ==
    /\ pc = "idle"
    /\ desired_assets = <<>>
    /\ Len(Flat(emit_results_urls)) >= 2

\* C3: when the download loop reaches a URL whose destination path is a
\* file, the step it takes sends no request and writes nothing: requests,
\* writes and files are unchanged and the loop moves to the next URL.
C3_ExistingSkipped ==
    [][(/\ pc = "loop"
        /\ i <= Len(filtered_asset_links)
        /\ Dest(i) \in DOMAIN files)
       => (/\ requests' = requests
           /\ writes' = writes
           /\ files' = files
           /\ i' = i + 1
           /\ pc' = "loop")]_vars

C3_Witness ==
    /\ pc = "loop"
    /\ i = 2
    /\ Dest(1) \in DOMAIN files0
    /\ files[Dest(1)] = Stale
    /\ requests = <<>>

\* C4: when a download run has completed, every URL whose destination path
\* did not exist when the loop reached it (not there when the run started,
\* and no earlier URL of the list has the same destination) has a file at
\* that path holding the remote content, written as the chunks of at most
\* chunk_size bytes in the order received; the new files are exactly these.
C4_AbsentDownloaded ==
    status = "completed" =>
        /\ \A k \in 1..Len(filtered_asset_links) :
               (Dest(k) \notin DOMAIN files0 /\ FirstWithDest(k)) =>
                   /\ Dest(k) \in DOMAIN files
                   /\ files[Dest(k)] = Remote(filtered_asset_links[k])
                   /\ Len(files[Dest(k)]) = Len(Remote(filtered_asset_links[k]))
                   /\ Concat(ChunksTo(Dest(k))) = Remote(filtered_asset_links[k])
                   /\ \A c \in Range(ChunksTo(Dest(k))) :
                          Len(c) >= 1 /\ Len(c) <= chunk_size
        /\ DOMAIN files \ DOMAIN files0 =
               {Dest(k) : k \in {j \in 1..Len(filtered_asset_links) :
                                     Dest(j) \notin DOMAIN files0}}

C4_Witness ==
    /\ status = "completed"
    /\ \E k \in 1..Len(filtered_asset_links) :
           /\ Dest(k) \notin DOMAIN files0
           /\ Len(ChunksTo(Dest(k))) >= 2

\* C5: a file left by an interrupted download stays at its path with the
\* content it had when the download was interrupted, shorter than the remote
\* content, and no later download run sends a request for it or writes it.
C5_PartialKept ==
    \A p \in DOMAIN interrupted :
        /\ p \in DOMAIN files
        /\ files[p] = interrupted[p].content
        /\ Len(files[p]) < Len(Remote(interrupted[p].url))
        /\ run > interrupted[p].run =>
               /\ \A k \in 1..Len(requests) :
                      /\ requests[k] # interrupted[p].url
                      /\ DataDir \o FileName(requests[k]) # p
               /\ \A k \in 1..Len(writes) : writes[k][1] # p

C5_Witness ==
    \E p \in DOMAIN interrupted :
        /\ run > interrupted[p].run
        /\ status = "completed"
        /\ interrupted[p].url \in Range(filtered_asset_links)
        /\ Len(files[p]) >= 1

\* C6 as stated: after a run that completed on an empty data directory,
\* every URL of filtered_asset_links has a file named by its last path
\* segment that holds the content of that URL.
C6_OneFilePerUrl ==
    (status = "completed" /\ files0 = EmptyFS) =>
        \A k \in 1..Len(filtered_asset_links) :
            /\ Dest(k) \in DOMAIN files
            /\ files[Dest(k)] = Remote(filtered_asset_links[k])

\* C6 amended: after a run that completed on an empty data directory, the
\* directory holds exactly one file per distinct last path segment of the
\* URLs of filtered_asset_links, and it holds the content of the first URL
\* of the list with that last path segment.
C6_OneFilePerName ==
    (status = "completed" /\ files0 = EmptyFS) =>
        /\ DOMAIN files = {Dest(k) : k \in 1..Len(filtered_asset_links)}
        /\ \A k \in 1..Len(filtered_asset_links) :
               files[Dest(k)] = Remote(filtered_asset_links[FirstIndex(k)])

C6_Witness ==
    /\ status = "completed"
    /\ files0 = EmptyFS
    /\ Len(filtered_asset_links) = 2
    /\ Dest(1) = Dest(2)
    /\ filtered_asset_links[1] # filtered_asset_links[2]
    /\ files[Dest(2)] # Remote(filtered_asset_links[2])

\* C7: a step of the download changes a file that exists only if that file
\* is the destination of the current URL, did not exist when the run started
\* and is the destination of no earlier URL of the list; and in a run that
\* follows a completed run no request is sent and no file changes.
C7_NoOverwriteStep ==
    \A p \in DOMAIN files :
        /\ p \in DOMAIN files'
        /\ files'[p] # files[p] =>
               /\ pc = "writing"
               /\ p = Dest(i)
               /\ p \notin DOMAIN files0
               /\ FirstWithDest(i)

C7_SecondRunIdle ==
    (run >= 2 /\ prev_status = "completed") =>
        /\ requests = <<>>
        /\ writes = <<>>
        /\ files = files0

C7_Idempotent == []C7_SecondRunIdle /\ [][C7_NoOverwriteStep]_vars

C7_Witness ==
    /\ run = 2
    /\ prev_status = "completed"
    /\ status = "completed"
    /\ \E k \in 1..Len(filtered_asset_links) :
           /\ Dest(k) \in DOMAIN files
           /\ files[Dest(k)] = Remote(filtered_asset_links[k])

\* C8: a run of the stream cell changes no file, and the handle it opens is
\* bound to the first URL of filtered_asset_links.
C8_StreamStep ==
    streams' # streams =>
        /\ files' = files
        /\ DOMAIN files' = DOMAIN files
        /\ stream_error' = None => stream_fp' = Head(filtered_asset_links)

C8_Stream ==
    /\ [](stream_fp # None => stream_fp = Head(filtered_asset_links))
    /\ [][C8_StreamStep]_vars

C8_Witness ==
    /\ streams >= 1
    /\ stream_error = None
    /\ stream_fp = Head(filtered_asset_links)
    /\ Len(filtered_asset_links) >= 2
    /\ filtered_asset_links[1] # filtered_asset_links[2]
    /\ DOMAIN files # {}

\* C9: in one download run no URL is requested twice, and once a request or
\* a write has failed the run is over: the failed URL is the last one
\* requested, every request and write of the run is for a URL up to the
\* failed one, and nothing more is requested or written in that run.
C9_StopsAtFailure ==
    /\ \A j, k \in 1..Len(requests) : j # k => requests[j] # requests[k]
    /\ dl_error # None =>
           /\ pc = "idle"
           /\ status = "failed"
           /\ requests # <<>>
           /\ requests[Len(requests)] = filtered_asset_links[i]
           /\ \A k \in 1..Len(requests) :
                  \E j \in 1..i : requests[k] = filtered_asset_links[j]
           /\ \A k \in 1..Len(writes) :
                  \E j \in 1..i : writes[k][1] = Dest(j)

C9_NothingAfterFailure ==
    (dl_error # None /\ run' = run) =>
        /\ requests' = requests
        /\ writes' = writes
        /\ files' = files

C9_NoRetry == []C9_StopsAtFailure /\ [][C9_NothingAfterFailure]_vars

C9_Witness ==
    /\ dl_error # None
    /\ pc = "idle"
    /\ i < Len(filtered_asset_links)
    /\ Dest(i + 1) \notin DOMAIN files
    /\ streams >= 1

\* C10 as stated: with an empty search result no step raises an error, the
\* filtered list is empty, no request is sent and no file is written.
C10_NoErrorAnywhere ==
    results = <<>> =>
        /\ stream_error = None
        /\ dl_error = None
        /\ filtered_asset_links = <<>>
        /\ requests = <<>>
        /\ files = files0

\* C10 amended: with an empty search result the nested lists and the
\* filtered list are empty, the download run raises no error, sends no
\* request and writes no file; the stream cell raises IndexError, opens no
\* handle and writes no file.
C10_EmptyResults ==
    results = <<>> =>
        /\ emit_results_urls = <<>>
        /\ filtered_asset_links = <<>>
        /\ dl_error = None
        /\ status \in {None, "running", "completed"}
        /\ requests = <<>>
        /\ writes = <<>>
        /\ files = files0
        /\ stream_fp = None
        /\ streams > 0 => stream_error = "IndexError"

C10_Witness ==
    /\ results = <<>>
    /\ streams > 0
    /\ stream_error = "IndexError"
    /\ status = "completed"
    /\ run = MaxRuns

====
